---- MODULE Spec2Model ----
\* A model of lambdacommon::fs (src/src/system/fs.cpp): the path value type,
\* its component iterator, the status queries, the directory iterator and the
\* tree-mutating operations, on both build targets (LAMBDA_WINDOWS or not).
\*
\* A path is the sequence of the characters of its native string; positions in
\* a string are 0-based offsets, as the C++ iterators are (offset n = end()).
EXTENDS Integers, Sequences, FiniteSets, TLC

VARIABLES
    win,      \* TRUE: the LAMBDA_WINDOWS build; FALSE: the POSIX build
    fs,       \* the filesystem: existing entry (a sequence of names) |-> node
    fs0,      \* the filesystem before the last operation
    last,     \* the last operation: name, arguments, result, error code
    its,      \* the directory_iterator objects of the program
    parts     \* a path value and the results of its decomposition calls

vars == <<win, fs, fs0, last, its, parts>>

\* ------------------------------------------------------------------------
\* Characters and strings

Letters == {"a", "b", "c", "d", "l", "t", "x", "y", "C"}

preferred_separator == IF win THEN "\\" ELSE "/"

\* a local variable of the code: the value v, named by the parameter of F
With(v, F(_)) == F(v)

Min(S) == CHOOSE x \in S : \A y \in S : x <= y
Max(S) == CHOOSE x \in S : \A y \in S : x >= y

\* character at 0-based offset k
At(s, k) == s[k + 1]
\* s.substr(k)
SubstrFrom(s, k) == SubSeq(s, k + 1, Len(s))
\* the range [i, j) of s
Range(s, i, j) == SubSeq(s, i + 1, j)
\* std::find / find_first_of from offset k: first offset holding a character
\* of C, or Len(s)
FindFirstOf(s, k, C) ==
    LET S == {j \in k..(Len(s) - 1) : At(s, j) \in C}
    IN IF S = {} THEN Len(s) ELSE Min(S)
\* std::find over reverse iterators from offset i down to 0, then .base():
\* one past the last offset below i holding a character of C, or 0
FindLastBase(s, i, C) ==
    LET S == {j \in 0..(i - 1) : At(s, j) \in C}
    IN IF S = {} THEN 0 ELSE Max(S) + 1
\* first offset >= k that does not hold character c, or Len(s)
SkipWhile(s, k, c) ==
    LET S == {j \in k..(Len(s) - 1) : At(s, j) # c}
    IN IF S = {} THEN Len(s) ELSE Min(S)

\* ------------------------------------------------------------------------
\* path::iterator

\* path::iterator::increment: the body reads the member _pos, not its
\* parameter; the argument here is that member.
iterator_increment(s, _pos) ==
    LET n == Len(s)
        from_start == (_pos = 0)
        i == _pos + 1
    IN IF _pos = n THEN _pos
       ELSE IF At(s, _pos) = preferred_separator
            THEN IF i # n /\ At(s, i) = preferred_separator
                 THEN IF from_start /\ ~(i + 1 # n /\ At(s, i + 1) = preferred_separator)
                      THEN FindFirstOf(s, i + 1, {preferred_separator})
                      ELSE SkipWhile(s, i, preferred_separator)
                 ELSE i
            ELSE IF from_start /\ i # n /\ At(s, i) = ":"
                 THEN i + 1
                 ELSE FindFirstOf(s, i, {preferred_separator})

\* path::iterator::update_current
update_current(s, _pos, _root) ==
    LET n == Len(s)
    IN IF _pos # 0 /\ _pos # n
          /\ (At(s, _pos) = preferred_separator /\ _pos # _root)
          /\ (_pos + 1 = n)
       THEN <<>>
       ELSE With(Range(s, _pos, iterator_increment(s, _pos)), LAMBDA c :
               IF Len(c) > 1 /\ c[1] = preferred_separator
                  /\ c[Len(c)] = preferred_separator
               THEN <<preferred_separator>>
               ELSE c)

\* path::iterator::iterator(first, last, pos): the position of a potential
\* root directory.  increment(_first) starts from _pos (see above).
iterator_root(s, pos) ==
    LET n == Len(s)
    IN IF win /\ n >= 3 /\ At(s, 0) \in Letters /\ At(s, 1) = ":"
          /\ At(s, 2) = preferred_separator
       THEN 2
       ELSE IF n # 0 /\ At(s, 0) = preferred_separator
            THEN IF n >= 2 /\ At(s, 1) = preferred_separator
                    /\ ~(n >= 3 /\ At(s, 2) = preferred_separator)
                 THEN iterator_increment(s, pos)
                 ELSE 0
            ELSE n

\* update_current() runs in the constructor before _root is set; it is only
\* constructed at pos = 0 or pos = n, where update_current does not read _root.
iterator(s, pos) ==
    With(iterator_root(s, pos), LAMBDA r :
        [s |-> s, pos |-> pos, root |-> r, current |-> update_current(s, pos, r)])

begin(p) == iterator(p, 0)
end(p) == iterator(p, Len(p))

RECURSIVE SkipSeparators(_, _, _)
\* the while loop of operator++
SkipSeparators(s, pos, root) ==
    IF pos # Len(s) /\ pos # root /\ At(s, pos) = preferred_separator
       /\ (pos + 1) # Len(s)
    THEN SkipSeparators(s, pos + 1, root)
    ELSE pos

\* path::iterator::operator++
iterator_next(it) ==
    With(SkipSeparators(it.s, iterator_increment(it.s, it.pos), it.root), LAMBDA p2 :
        [it EXCEPT !.pos = p2, !.current = update_current(it.s, p2, it.root)])

\* path::iterator::decrement
iterator_decrement(s, _root, pos) ==
    LET n == Len(s)
        i1 == pos - 1
    IN IF pos = 0 THEN pos
       ELSE IF i1 # _root /\ (pos # n \/ At(s, i1) # preferred_separator)
            THEN With(IF win
                      THEN With(FindLastBase(s, i1, {"\\", "/", ":"}), LAMBDA b :
                               IF b > 0 /\ b < n /\ At(s, b) = ":" THEN b + 1 ELSE b)
                      ELSE FindLastBase(s, i1, {"/"}),
                      LAMBDA i2 :
                         IF i2 = 2 /\ At(s, 0) = preferred_separator
                            /\ At(s, 1) = preferred_separator
                         THEN i2 - 2
                         ELSE i2)
            ELSE i1

\* path::iterator::operator--
iterator_prev(it) ==
    With(iterator_decrement(it.s, it.root, it.pos), LAMBDA p1 :
        [it EXCEPT !.pos = p1, !.current = update_current(it.s, p1, it.root)])

RECURSIVE Visited(_)
\* for (it = p.begin(); it != p.end(); ++it): the components *it, in order
Visited(it) ==
    IF it.pos = Len(it.s) THEN <<>>
    ELSE <<it.current>> \o Visited(iterator_next(it))

\* ------------------------------------------------------------------------
\* path: decomposition and append

root_name(p) ==
    IF win /\ Len(p) >= 2 /\ At(p, 0) \in Letters /\ At(p, 1) = ":"
    THEN Range(p, 0, 2)
    ELSE IF Len(p) > 2 /\ At(p, 0) = "/" /\ At(p, 1) = "/" /\ At(p, 2) # "/"
         THEN With(FindFirstOf(p, 3, {"/", "\\"}), LAMBDA pos :
                 IF pos = Len(p) THEN p ELSE Range(p, 0, pos))
         ELSE <<>>

root_directory(p) ==
    With(root_name(p), LAMBDA root :
        IF Len(p) > Len(root) /\ At(p, Len(root)) = preferred_separator
        THEN <<preferred_separator>>
        ELSE <<>>)

has_root_name(p) == root_name(p) # <<>>
has_root_directory(p) == root_directory(p) # <<>>

is_absolute(p) == (win => has_root_name(p)) /\ has_root_directory(p)

RECURSIVE append(_, _)

\* an append of the empty path that does not look for a colon
append_ends_open_colon(this) ==
    this # <<>> /\ this[Len(this)] # preferred_separator
\* path::append of the empty path: this needs a separator after it
append_ends_open(this) ==
    this # <<>> /\ this[Len(this)] # preferred_separator /\ this[Len(this)] # ":"

root_path(p) == append(root_name(p), root_directory(p))

relative_path(p) ==
    With(root_path(p), LAMBDA root : SubstrFrom(p, Min({Len(root), Len(p)})))

has_relative_path(p) == relative_path(p) # <<>>

get_filename(p) ==
    IF ~has_relative_path(p) THEN <<>> ELSE iterator_prev(end(p)).current

has_filename(p) == get_filename(p) # <<>>

RECURSIVE AppendComponents(_, _, _, _)
\* the while loop of path::append
AppendComponents(acc, iter, n, first) ==
    IF iter.pos = n THEN acc
    ELSE AppendComponents((IF ~first /\ ~(acc # <<>> /\ acc[Len(acc)] = preferred_separator)
                           THEN Append(acc, preferred_separator)
                           ELSE acc) \o iter.current,
                          iterator_next(iter), n, FALSE)

\* an append that replaces this only by a path with another root name
append_replaces_renamed(this, path, rn, prn, prd) ==
    ((win => prn # <<>>) /\ prd) /\ (prn # <<>> /\ prn # rn)
\* path::append: the absolute argument replaces this; rn, prn, prd:
\* root_name(), path.root_name() and path.has_root_directory()
append_replaces(this, path, rn, prn, prd) ==
    ((win => prn # <<>>) /\ prd)
    /\ ((this # rn \/ path # <<preferred_separator>>)
        \/ (prn # <<>> /\ prn # rn))

\* the part of path::append after the test of an empty argument
AppendTo(this, path, rn, prn, prd) ==
    IF append_replaces(this, path, rn, prn, prd)
    THEN path
    ELSE AppendComponents(IF prd THEN rn
                          ELSE IF (~has_root_directory(this) /\ is_absolute(this))
                                  \/ has_filename(this)
                               THEN Append(this, preferred_separator)
                               ELSE this,
                          With(begin(path), LAMBDA it0 :
                              IF prn # <<>> THEN iterator_next(it0) ELSE it0),
                          Len(path), TRUE)

\* path::append (operator/)
append(this, path) ==
    IF path = <<>>
    THEN IF append_ends_open(this)
         THEN Append(this, preferred_separator)
         ELSE this
    ELSE AppendTo(this, path, root_name(this), root_name(path), has_root_directory(path))

\* ------------------------------------------------------------------------
\* The operating system: a tree of entries reached by path resolution.
\* An entry is a sequence of names (the root is <<>>); a name is a string.

\* the names an entry can have in the model
nd == <<"d">>
nl == <<"l">>
nt == <<"t">>
nx == <<"x">>
nxy == <<"x", ":", "y">>
dot == <<".">>
dotdot == <<".", ".">>

\* the two orders in which the OS may list a directory
Order1 == <<dot, dotdot, nd, nl, nt, nx, nxy>>
Order2 == <<nxy, dot, nx, nt, dotdot, nl, nd>>

\* SYMLOOP_MAX of the operating system (bounded)
SymloopMax == 2
\* directory reads at which an injected read error can happen
MaxReadFail == 3

NoFault == [type |-> "none", slot |-> <<>>, at |-> 0]

Root == <<>>
Parent(slot) == IF slot = <<>> THEN <<>> ELSE SubSeq(slot, 1, Len(slot) - 1)
Exists(f, slot) == slot \in DOMAIN f
Children(f, slot) == {s \in DOMAIN f : s # <<>> /\ Parent(s) = slot}

Separators == IF win THEN {"/", "\\"} ELSE {"/"}

RECURSIVE Split(_, _)
\* the non-empty components of a path string between separators
Split(s, k) ==
    IF k >= Len(s) THEN <<>>
    ELSE IF At(s, k) \in Separators THEN Split(s, k + 1)
    ELSE With(FindFirstOf(s, k, Separators), LAMBDA e :
             <<Range(s, k, e)>> \o Split(s, e))

\* the components the OS walks: a drive prefix is dropped on Windows
Components(p) ==
    IF win /\ Len(p) >= 2 /\ At(p, 1) = ":" THEN Split(p, 2) ELSE Split(p, 0)

RECURSIVE Walk(_, _, _, _, _)
\* path resolution from directory cur; follow: resolve a final symbolic link;
\* final: the component that failed was the last one
Walk(f, comps, cur, follow, fuel) ==
    IF comps = <<>> THEN [err |-> "", slot |-> cur, final |-> TRUE]
    ELSE IF f[cur].kind # "dir" THEN [err |-> "ENOTDIR", slot |-> cur, final |-> FALSE]
    ELSE LET name == Head(comps)
             rest == Tail(comps)
             s == Append(cur, name)
         IN IF name = dot THEN Walk(f, rest, cur, follow, fuel)
            ELSE IF name = dotdot THEN Walk(f, rest, Parent(cur), follow, fuel)
            ELSE IF ~Exists(f, s) THEN [err |-> "ENOENT", slot |-> s, final |-> rest = <<>>]
            ELSE IF f[s].kind = "link" /\ (rest # <<>> \/ follow)
                 THEN IF fuel = 0 THEN [err |-> "ELOOP", slot |-> s, final |-> FALSE]
                      ELSE LET t == f[s].tgt
                               start == IF t # <<>> /\ t[1] \in Separators
                                        THEN Root ELSE cur
                           IN IF t = <<>> THEN [err |-> "ENOENT", slot |-> s, final |-> FALSE]
                              ELSE Walk(f, Components(t) \o rest, start, follow, fuel - 1)
                 ELSE Walk(f, rest, s, follow, fuel)

\* resolve a path string (the working directory is the root); a trailing
\* separator asks for a directory and resolves a final link
Lookup(f, p, follow) ==
    IF p = <<>> THEN [err |-> "ENOENT", slot |-> <<>>, final |-> FALSE]
    ELSE With(Components(p), LAMBDA comps :
         With(p[Len(p)] \in Separators /\ comps # <<>>, LAMBDA trailing :
         With(Walk(f, comps, Root, follow \/ trailing, SymloopMax), LAMBDA r :
             IF r.err = "" /\ trailing /\ f[r.slot].kind # "dir"
             THEN [err |-> "ENOTDIR", slot |-> r.slot, final |-> FALSE]
             ELSE r)))

\* lstat / GetFileAttributesExW: the entry itself
os_lstat(f, p) == Lookup(f, p, FALSE)
\* stat: the entry a final link resolves to
os_stat(f, p) == Lookup(f, p, TRUE)

\* ::remove, RemoveDirectoryW, DeleteFileW on an entry that was looked up
os_unlink(f, slot, fault) ==
    IF fault.type = "remove_fail" /\ fault.slot = slot
    THEN [err |-> "EACCES", fs |-> f]
    ELSE IF slot = Root THEN [err |-> "EBUSY", fs |-> f]
    ELSE IF f[slot].kind = "dir" /\ Children(f, slot) # {}
    THEN [err |-> "ENOTEMPTY", fs |-> f]
    ELSE [err |-> "", fs |-> [s \in (DOMAIN f) \ {slot} |-> f[s]]]

\* the names the OS lists for a directory, in the order it chooses
Listing(f, slot, order) ==
    LET names == {s[Len(s)] : s \in Children(f, slot)}
        dots == IF win /\ slot = Root THEN {} ELSE {dot, dotdot}
        Listed(n) == n \in names \cup dots
    IN SelectSeq(IF order = 1 THEN Order1 ELSE Order2, Listed)

NoStream == [names |-> <<>>, idx |-> 0, reads |-> 0, failAt |-> 0]

\* opendir / the open part of FindFirstFileW
os_opendir(f, p, env) ==
    With(os_stat(f, p), LAMBDA r :
       IF r.err # "" THEN [err |-> r.err, stream |-> NoStream]
       ELSE IF f[r.slot].kind # "dir" THEN [err |-> "ENOTDIR", stream |-> NoStream]
       ELSE IF env.fault.type = "open_denied" /\ env.fault.slot = r.slot
            THEN [err |-> "EACCES", stream |-> NoStream]
       ELSE IF env.fault.type = "open_fail" /\ env.fault.slot = r.slot
            THEN [err |-> "EMFILE", stream |-> NoStream]
       ELSE [err |-> "",
             stream |-> [names |-> Listing(f, r.slot, env.order), idx |-> 0, reads |-> 0,
                         failAt |-> IF env.fault.type = "read_fail" /\ env.fault.slot = r.slot
                                    THEN env.fault.at ELSE 0]])

\* the open part of FindFirstFileW: the directory the pattern is in
os_findfirst(f, pattern, env) == os_opendir(f, Range(pattern, 0, Len(pattern) - 1), env)

\* readdir / FindNextFileW: the next name, the end, or a (transient) error
os_readdir(st) ==
    IF st.reads + 1 = st.failAt
    THEN [err |-> "EIO", name |-> <<>>, eof |-> FALSE,
          stream |-> [st EXCEPT !.reads = @ + 1]]
    ELSE IF st.idx < Len(st.names)
    THEN [err |-> "", name |-> st.names[st.idx + 1], eof |-> FALSE,
          stream |-> [st EXCEPT !.reads = @ + 1, !.idx = @ + 1]]
    ELSE [err |-> "", name |-> <<>>, eof |-> TRUE,
          stream |-> [st EXCEPT !.reads = @ + 1]]

\* ------------------------------------------------------------------------
\* Status queries

PermsUnknown == {"unknown"}
Unknown == -1  \* static_cast<uintmax_t>(-1), static_cast<size_t>(-1)
NoError == ""  \* the value of a std::error_code after clear()

file_type(kind) ==
    CASE kind = "dir" -> "directory"
      [] kind = "file" -> "regular"
      [] kind = "link" -> "symlink"

\* file_status_from_st_mode
file_status_from_st_mode(node) == [type |-> file_type(node.kind), prms |-> node.perms]

\* status_from_INFO; no name of the model has an executable extension
status_from_INFO(node) ==
    [type |-> file_type(node.kind),
     prms |-> {"r"} \cup (IF "w" \in node.perms THEN {"w"} ELSE {})]

is_not_found_error(ec) == IF win THEN ec \in {"ENOENT", "ENOTDIR"} ELSE ec = "ENOENT"

NLink(f, slot) == Cardinality({s \in DOMAIN f : f[s].ino = f[slot].ino})

StatusResult(type, prms, ec, nlink, lwt) ==
    [type |-> type, prms |-> prms, ec |-> ec, crash |-> FALSE, nlink |-> nlink, lwt |-> lwt]

\* internal_status: ec is cleared on entry.  On Windows a reparse point makes
\* it call read_symlink, which calls get_file_type, which calls
\* internal_status on the same path: the recursion never ends and the process
\* dies (crash).
internal_status(f, p, ec) ==
    With(os_lstat(f, p), LAMBDA l :
       IF win
       THEN IF l.err # ""
            THEN IF is_not_found_error(l.err)
                 THEN StatusResult("not_found", PermsUnknown, l.err, 0, 0)
                 ELSE StatusResult("none", PermsUnknown, l.err, 0, 0)
            ELSE IF f[l.slot].kind = "link"
                 THEN [StatusResult("unknown", PermsUnknown, NoError, 0, 0) EXCEPT !.crash = TRUE]
                 ELSE With(status_from_INFO(f[l.slot]), LAMBDA st :
                         StatusResult(st.type, st.prms, NoError, 0, f[l.slot].mtime))
       ELSE IF l.err = ""
            THEN With(file_status_from_st_mode(f[l.slot]), LAMBDA s1 :
                 With(os_stat(f, p), LAMBDA r :
                 With(IF s1.type = "symlink" /\ r.err = "" THEN r.slot ELSE l.slot,
                      LAMBDA slot :
                 With(file_status_from_st_mode(f[slot]), LAMBDA s2 :
                     StatusResult(s2.type, s2.prms, NoError, NLink(f, slot),
                                  f[slot].mtime)))))
            ELSE IF l.err = "ENOENT"
                 THEN StatusResult("not_found", PermsUnknown, l.err, 0, 0)
                 ELSE StatusResult("none", PermsUnknown, l.err, 0, 0))

\* path::status(ec)
status(f, p, ec) == internal_status(f, p, ec)

\* path::exists
exists(f, p) == IF win THEN os_lstat(f, p).err = "" ELSE os_stat(f, p).err = ""

\* ------------------------------------------------------------------------
\* path::remove(ec): ec is cleared on entry

remove(f, p, ec, env) ==
    With(os_lstat(f, p), LAMBDA l :
       IF l.err # ""
       THEN IF (win /\ l.err \in {"ENOENT", "ENOTDIR"}) \/ (~win /\ l.err = "ENOENT")
            THEN [fs |-> f, ret |-> FALSE, ec |-> NoError, crash |-> FALSE, ok |-> TRUE]
            ELSE [fs |-> f, ret |-> FALSE, ec |-> l.err, crash |-> FALSE, ok |-> FALSE]
       ELSE With(os_unlink(f, l.slot, env.fault), LAMBDA u :
               [fs |-> u.fs, ret |-> (u.err = ""), ec |-> u.err, crash |-> FALSE,
                ok |-> (u.err = "")]))

\* ------------------------------------------------------------------------
\* directory_iterator::impl
\* _dir: the handle is held (shared_ptr<DIR> non-null, _dir_handle valid);
\* stream: the state of that OS handle.  History kept for the properties:
\* opened, closes (was the handle ever opened, how often was it released),
\* exhausted (the OS reported the end of the enumeration), name (the OS name
\* of the entry the iterator is on), oserr (the error of the last OS call).

NoImpl ==
    [_base |-> <<>>, _dir |-> FALSE, stream |-> NoStream, _current |-> <<>>,
     _dir_entry |-> <<>>, ec |-> NoError, opened |-> FALSE, closes |-> 0,
     exhausted |-> FALSE, name |-> <<>>, oserr |-> "", destroyed |-> FALSE]

\* an increment that stops on "." and ".."
impl_increment_dots(it, ec) ==
    IF ~it._dir
    THEN [it |-> [it EXCEPT !.oserr = ""], ec |-> IF win THEN it.ec ELSE ec]
    ELSE With(os_readdir(it.stream), LAMBDA r :
            IF r.err = "" /\ ~r.eof
            THEN With(append(it._base, r.name), LAMBDA cur :
                     [it |-> [it EXCEPT !.stream = r.stream, !._current = cur,
                                        !._dir_entry = cur, !.name = r.name,
                                        !.oserr = ""],
                      ec |-> ec])
            ELSE IF win \/ r.eof
            THEN [it |-> [it EXCEPT !.stream = r.stream, !._dir = FALSE,
                                    !.closes = @ + 1, !._current = <<>>,
                                    !.exhausted = r.eof, !.oserr = r.err],
                  ec |-> ec]
            ELSE [it |-> [it EXCEPT !.stream = r.stream, !._current = <<>>,
                                    !.oserr = r.err],
                  ec |-> r.err])

RECURSIVE impl_increment_stale(_, _)
\* an increment that keeps _current when the enumeration is exhausted
impl_increment_stale(it, ec) ==
    IF ~it._dir
    THEN [it |-> [it EXCEPT !.oserr = ""], ec |-> IF win THEN it.ec ELSE ec]
    ELSE With(os_readdir(it.stream), LAMBDA r :
            IF r.err = "" /\ ~r.eof
            THEN With(append(it._base, r.name), LAMBDA cur :
                 With([it EXCEPT !.stream = r.stream, !._current = cur,
                                 !._dir_entry = cur, !.name = r.name, !.oserr = ""],
                      LAMBDA it1 :
                         IF r.name = dot \/ r.name = dotdot
                         THEN impl_increment_stale(it1, ec)
                         ELSE [it |-> it1, ec |-> ec]))
            ELSE IF win \/ r.eof
            THEN [it |-> [it EXCEPT !.stream = r.stream, !._dir = FALSE,
                                    !.closes = @ + 1,
                                    !.exhausted = r.eof, !.oserr = r.err],
                  ec |-> ec]
            ELSE [it |-> [it EXCEPT !.stream = r.stream, !._current = <<>>,
                                    !.oserr = r.err],
                  ec |-> r.err])

RECURSIVE impl_increment(_, _)
\* directory_iterator::impl::increment(ec)
impl_increment(it, ec) ==
    IF ~it._dir
    THEN [it |-> [it EXCEPT !.oserr = ""], ec |-> IF win THEN it.ec ELSE ec]
    ELSE With(os_readdir(it.stream), LAMBDA r :
            IF r.err = "" /\ ~r.eof
            THEN With(append(it._base, r.name), LAMBDA cur :
                 With([it EXCEPT !.stream = r.stream, !._current = cur,
                                 !._dir_entry = cur, !.name = r.name, !.oserr = ""],
                      LAMBDA it1 :
                         IF r.name = dot \/ r.name = dotdot
                         THEN impl_increment(it1, ec)
                         ELSE [it |-> it1, ec |-> ec]))
            ELSE IF win \/ r.eof
            THEN [it |-> [it EXCEPT !.stream = r.stream, !._dir = FALSE,
                                    !.closes = @ + 1, !._current = <<>>,
                                    !.exhausted = r.eof, !.oserr = r.err],
                  ec |-> ec]
            ELSE [it |-> [it EXCEPT !.stream = r.stream, !._current = <<>>,
                                    !.oserr = r.err],
                  ec |-> r.err])

\* directory_iterator::impl::impl(path p).  env.moved: the moved-from
\* parameter p reads as empty (the Windows constructor tests p after it has
\* moved it to _base).
impl(f, p, env) ==
    IF p = <<>> THEN NoImpl
    ELSE IF win
    THEN With(os_findfirst(f, append(p, <<"*">>), env), LAMBDA o :
         With(IF o.err = "" THEN os_readdir(o.stream)
              ELSE [err |-> o.err, eof |-> FALSE], LAMBDA first :
            IF first.err = "" /\ ~first.eof
            THEN With(append(p, first.name), LAMBDA cur :
                 With([NoImpl EXCEPT !._base = p, !._dir = TRUE, !.opened = TRUE,
                                     !.stream = first.stream, !._current = cur,
                                     !.name = first.name], LAMBDA it0 :
                    IF first.name = dot \/ first.name = dotdot
                    THEN With(impl_increment(it0, it0.ec), LAMBDA r :
                             [r.it EXCEPT !.ec = r.ec])
                    ELSE [it0 EXCEPT !._dir_entry = cur]))
            ELSE With(IF first.err = "" THEN "ENOENT" ELSE first.err, LAMBDA error :
                    IF ~env.moved
                    THEN [NoImpl EXCEPT !.ec = IF error # "EACCES" THEN error ELSE NoError,
                                        !.oserr = error]
                    ELSE [NoImpl EXCEPT !._base = p, !.oserr = error])))
    ELSE With(os_opendir(f, p, env), LAMBDA o :
            IF o.err # ""
            THEN [NoImpl EXCEPT !.ec = IF o.err # "EACCES" THEN o.err ELSE NoError,
                                !.oserr = o.err]
            ELSE With([NoImpl EXCEPT !._base = p, !._dir = TRUE, !.opened = TRUE,
                                     !.stream = o.stream], LAMBDA it0 :
                 With(impl_increment(it0, it0.ec), LAMBDA r :
                     [r.it EXCEPT !.ec = r.ec])))

\* a destruction that does not release the handle
impl_destroy_leak(it) == [it EXCEPT !.destroyed = TRUE]

\* directory_iterator::impl::~impl and the deleter of _dir
impl_destroy(it) ==
    IF it._dir
    THEN [it EXCEPT !._dir = FALSE, !.closes = @ + 1, !.destroyed = TRUE]
    ELSE [it EXCEPT !.destroyed = TRUE]

\* directory_iterator::directory_iterator(path p, std::error_code& ec)
directory_iterator_ec(f, p, ec, env) ==
    With(impl(f, p, env), LAMBDA i :
        [it |-> i, ec |-> IF i.ec # NoError THEN i.ec ELSE ec])

\* directory_iterator::directory_iterator(path p): on a throw the object is
\* not constructed and its impl is destroyed
directory_iterator_throwing(f, p, env) ==
    With(impl(f, p, env), LAMBDA i :
       IF i.ec # NoError THEN [it |-> impl_destroy(i), thrown |-> TRUE]
       ELSE [it |-> [i EXCEPT !.ec = NoError], thrown |-> FALSE])

\* directory_iterator::directory_iterator()
directory_iterator_default == NoImpl

\* directory_iterator::increment(ec)
directory_iterator_increment(it, ec) == impl_increment(it, ec)

\* directory_iterator::operator++
directory_iterator_next(it) ==
    With(directory_iterator_increment(it, NoError), LAMBDA r :
        [it |-> r.it, thrown |-> r.ec # NoError])

\* directory_iterator::operator==
directory_iterator_eq(a, b) == a._current = b._current

\* ------------------------------------------------------------------------
\* path::remove_all(ec)
\* log: the OS enumeration and removal steps of the call, in order, each with
\* its error and whether it removed an entry

Event(call, err, removed) == [call |-> call, err |-> err, removed |-> removed]

RemoveAllResult(f, ret, ec, crash, log) ==
    [fs |-> f, ret |-> ret, ec |-> ec, crash |-> crash, log |-> log,
     ok |-> (ec = NoError /\ ~crash)]

\* a remove_all without the guard
remove_all_refuses_never(this) == FALSE

\* remove_all refuses the root path
remove_all_refuses(this) == this = <<"/">>

RECURSIVE remove_all(_, _, _, _)
RECURSIVE RemoveAllLoop(_, _, _, _, _, _)

\* the for loop of remove_all over the children; returned: the loop executed
\* a return statement
RemoveAllLoop(f, iter, ec, count, env, log) ==
    IF directory_iterator_eq(iter, directory_iterator_default) \/ ec # NoError
    THEN [fs |-> f, count |-> count, ec |-> ec, returned |-> FALSE, crash |-> FALSE,
          log |-> log]
    ELSE With(status(f, iter._dir_entry, ec), LAMBDA iter_fs :
            IF iter_fs.crash
            THEN [fs |-> f, count |-> count, ec |-> ec, returned |-> TRUE, crash |-> TRUE,
                  log |-> log]
            ELSE IF iter_fs.type # "symlink" /\ iter_fs.type = "directory"
            THEN With(remove_all(f, iter._dir_entry, iter_fs.ec, env), LAMBDA r :
                    IF r.crash \/ r.ec # NoError
                    THEN [fs |-> r.fs, count |-> count, ec |-> r.ec, returned |-> TRUE,
                          crash |-> r.crash, log |-> log \o r.log]
                    ELSE With(directory_iterator_increment(iter, r.ec), LAMBDA n :
                            RemoveAllLoop(r.fs, n.it, n.ec, count + r.ret, env,
                                          log \o r.log
                                          \o <<Event("readdir", n.it.oserr, FALSE)>>)))
            ELSE With(remove(f, iter._dir_entry, iter_fs.ec, env), LAMBDA r :
                 With(Append(log, Event("remove", r.ec, r.ret)), LAMBDA l1 :
                    IF r.ec # NoError
                    THEN [fs |-> r.fs, count |-> count, ec |-> r.ec, returned |-> TRUE,
                          crash |-> FALSE, log |-> l1]
                    ELSE With(directory_iterator_increment(iter, r.ec), LAMBDA n :
                            RemoveAllLoop(r.fs, n.it, n.ec, count + 1, env,
                                          Append(l1, Event("readdir", n.it.oserr,
                                                           FALSE)))))))

remove_all(f, this, ec, env) ==
    IF remove_all_refuses(this) THEN RemoveAllResult(f, Unknown, NoError, FALSE, <<>>)
    ELSE With(status(f, this, NoError), LAMBDA st :
            IF st.crash THEN RemoveAllResult(f, Unknown, NoError, TRUE, <<>>)
            ELSE With(IF exists(f, this) /\ st.type = "directory"
                      THEN With(directory_iterator_ec(f, this, NoError, env), LAMBDA c :
                               RemoveAllLoop(f, c.it, c.ec, 0, env,
                                             <<Event("opendir", c.it.oserr, FALSE)>>))
                      ELSE [fs |-> f, count |-> 0, ec |-> NoError, returned |-> FALSE,
                            crash |-> FALSE, log |-> <<>>],
                      LAMBDA walk :
                    IF walk.crash \/ walk.returned \/ walk.ec # NoError
                    THEN RemoveAllResult(walk.fs, Unknown, walk.ec, walk.crash, walk.log)
                    ELSE With(remove(walk.fs, this, walk.ec, env), LAMBDA r :
                         With(Append(walk.log, Event("remove", r.ec, r.ret)), LAMBDA l1 :
                            IF r.ec # NoError
                            THEN RemoveAllResult(r.fs, Unknown, r.ec, FALSE, l1)
                            ELSE RemoveAllResult(r.fs, IF r.ret THEN walk.count + 1
                                                       ELSE walk.count, NoError, FALSE,
                                                 l1)))))

\* path::remove_all(): throws when the error-code form leaves a code
remove_all_throwing(f, this, env) ==
    With(remove_all(f, this, NoError, env), LAMBDA r :
        [fs |-> r.fs, ret |-> r.ret, thrown |-> r.ec # NoError, crash |-> r.crash])

\* ------------------------------------------------------------------------
\* The operating system: calls that change or read one entry

NewIno(f) == 1 + Max({f[s].ino : s \in DOMAIN f})
Put(f, slot, node) == [s \in (DOMAIN f) \cup {slot} |-> IF s = slot THEN node ELSE f[s]]
IsPrefix(a, s) == Len(a) <= Len(s) /\ SubSeq(s, 1, Len(a)) = a

\* ::mkdir, CreateDirectoryW
os_mkdir(f, p, mode) ==
    With(os_lstat(f, p), LAMBDA l :
       IF l.err = "" THEN [err |-> "EEXIST", fs |-> f]
       ELSE IF l.err = "ENOENT" /\ l.final
       THEN [err |-> "",
             fs |-> Put(f, l.slot, [kind |-> "dir", tgt |-> <<>>, ino |-> NewIno(f),
                                    perms |-> mode, size |-> 0, mtime |-> 1])]
       ELSE [err |-> l.err, fs |-> f])

\* ::symlink, CreateSymbolicLinkW
os_symlink(f, target, link) ==
    With(os_lstat(f, link), LAMBDA l :
       IF target = <<>> THEN [err |-> "ENOENT", fs |-> f]
       ELSE IF l.err = "" THEN [err |-> "EEXIST", fs |-> f]
       ELSE IF l.err = "ENOENT" /\ l.final
       THEN [err |-> "",
             fs |-> Put(f, l.slot, [kind |-> "link", tgt |-> target, ino |-> NewIno(f),
                                    perms |-> {"r", "w", "x"}, size |-> Len(target),
                                    mtime |-> 1])]
       ELSE [err |-> l.err, fs |-> f])

\* ::link, CreateHardLinkW
os_link(f, target, link) ==
    With(os_lstat(f, target), LAMBDA t :
    With(os_lstat(f, link), LAMBDA l :
       IF t.err # "" THEN [err |-> t.err, fs |-> f]
       ELSE IF f[t.slot].kind = "dir" THEN [err |-> "EPERM", fs |-> f]
       ELSE IF l.err = "" THEN [err |-> "EEXIST", fs |-> f]
       ELSE IF l.err = "ENOENT" /\ l.final
       THEN [err |-> "", fs |-> Put(f, l.slot, f[t.slot])]
       ELSE [err |-> l.err, fs |-> f]))

\* ::chmod, _wchmod: every name of the file shows the new permissions
os_chmod(f, p, mode) ==
    With(os_stat(f, p), LAMBDA r :
       IF r.err # "" THEN [err |-> r.err, fs |-> f]
       ELSE [err |-> "",
             fs |-> [s \in DOMAIN f |->
                       IF f[s].ino = f[r.slot].ino THEN [f[s] EXCEPT !.perms = mode]
                       ELSE f[s]]])

\* the filesystem after the entry o and everything below it moved to n
Renamed(f, o, n) ==
    LET moved == {s \in DOMAIN f : IsPrefix(o, s)}
        Reroot(s) == n \o SubSeq(s, Len(o) + 1, Len(s))
        Origin(s) == o \o SubSeq(s, Len(n) + 1, Len(s))
        kept == ((DOMAIN f) \ moved) \ {n}
    IN [s \in kept \cup {Reroot(m) : m \in moved} |->
          IF s \in kept THEN f[s] ELSE f[Origin(s)]]

\* ::rename, MoveFileW: the entry and everything below it moves
os_rename(f, old, new) ==
    With(os_lstat(f, old), LAMBDA o :
    With(os_lstat(f, new), LAMBDA n :
       IF o.err # "" THEN [err |-> o.err, fs |-> f]
       ELSE IF n.err # "" /\ ~(n.err = "ENOENT" /\ n.final) THEN [err |-> n.err, fs |-> f]
       ELSE IF o.slot = Root THEN [err |-> "EBUSY", fs |-> f]
       ELSE IF o.slot = n.slot THEN [err |-> "", fs |-> f]
       ELSE IF IsPrefix(o.slot, n.slot) THEN [err |-> "EINVAL", fs |-> f]
       ELSE IF n.err = ""
       THEN IF win THEN [err |-> "EEXIST", fs |-> f]
            ELSE IF f[o.slot].kind = "dir" /\ f[n.slot].kind # "dir"
            THEN [err |-> "ENOTDIR", fs |-> f]
            ELSE IF f[o.slot].kind # "dir" /\ f[n.slot].kind = "dir"
            THEN [err |-> "EISDIR", fs |-> f]
            ELSE IF Children(f, n.slot) # {} THEN [err |-> "ENOTEMPTY", fs |-> f]
            ELSE [err |-> "", fs |-> Renamed(f, o.slot, n.slot)]
       ELSE [err |-> "", fs |-> Renamed(f, o.slot, n.slot)]))

\* ------------------------------------------------------------------------
\* Metadata operations of path

OpResult(f, ret, ec, crash, ok) ==
    [fs |-> f, ret |-> ret, ec |-> ec, crash |-> crash, ok |-> ok]

\* what a throwing form does with the result of its error-code form
Throwing(r) == [fs |-> r.fs, ret |-> r.ret, thrown |-> r.ec # NoError, crash |-> r.crash]

\* path::symlink_status(ec)
symlink_status(f, p, ec) ==
    IF win
    THEN With(os_lstat(f, p), LAMBDA l :
            IF l.err # ""
            THEN IF is_not_found_error(l.err)
                 THEN StatusResult("not_found", PermsUnknown, l.err, 0, 0)
                 ELSE StatusResult("none", PermsUnknown, l.err, 0, 0)
            ELSE With(status_from_INFO(f[l.slot]), LAMBDA st :
                    StatusResult(st.type, st.prms, NoError, 0, 0)))
    ELSE With(os_stat(f, p), LAMBDA r :
            IF r.err = ""
            THEN With(file_status_from_st_mode(f[r.slot]), LAMBDA st :
                    StatusResult(st.type, st.prms, NoError, 0, 0))
            ELSE IF r.err = "ENOENT"
                 THEN StatusResult("not_found", PermsUnknown, r.err, 0, 0)
                 ELSE StatusResult("none", PermsUnknown, r.err, 0, 0))

\* path::get_file_type(ec)
get_file_type(f, p, ec) == status(f, p, ec)

\* path::file_size(ec)
file_size(f, p, ec) ==
    With(IF win THEN os_lstat(f, p) ELSE os_stat(f, p), LAMBDA r :
       IF r.err # "" THEN OpResult(f, Unknown, r.err, FALSE, FALSE)
       ELSE OpResult(f, f[r.slot].size, NoError, FALSE, TRUE))

\* path::file_size()
file_size_throwing(f, p) == Throwing(file_size(f, p, NoError))

TimeMin == -1  \* (file_time_type::min)()

\* path::last_write_time(ec)
last_write_time(f, p, ec) ==
    With(internal_status(f, p, NoError), LAMBDA st :
       IF st.crash THEN OpResult(f, TimeMin, NoError, TRUE, FALSE)
       ELSE OpResult(f, IF st.ec # NoError THEN TimeMin ELSE st.lwt, st.ec, FALSE,
                     st.ec = NoError))

\* path::last_write_time()
last_write_time_throwing(f, p) == Throwing(last_write_time(f, p, NoError))

\* path::hard_link_count(ec)
hard_link_count(f, p, ec) ==
    IF win
    THEN With(os_stat(f, p), LAMBDA r :
            IF r.err # "" THEN OpResult(f, Unknown, r.err, FALSE, FALSE)
            ELSE OpResult(f, NLink(f, r.slot), NoError, FALSE, TRUE))
    ELSE With(internal_status(f, p, NoError), LAMBDA st :
         With(IF st.type = "not_found" THEN "ENOENT" ELSE st.ec, LAMBDA ec1 :
            OpResult(f, IF ec1 # NoError THEN Unknown ELSE st.nlink, ec1, FALSE,
                     ec1 = NoError)))

\* path::hard_link_count()
hard_link_count_throwing(f, p) == Throwing(hard_link_count(f, p, NoError))

PermBits == {"r", "w", "x"}

\* path::permissions(prms, opts, ec)
permissions(f, p, prms, opts, ec) ==
    IF opts \cap {"replace", "add", "remove"} = {}
    THEN OpResult(f, 0, "EINVAL", FALSE, FALSE)
    ELSE With(symlink_status(f, p, ec), LAMBDA st :
         With(IF "replace" \in opts THEN prms
              ELSE IF "add" \in opts THEN st.prms \cup prms
              ELSE st.prms \ prms, LAMBDA prms1 :
         With(IF win THEN (prms1 \cap {"r", "w"}) \cup {"r"} ELSE prms1 \cap PermBits,
              LAMBDA mode :
            IF ~win /\ "nofollow" \in opts
            THEN OpResult(f, 0, st.ec, FALSE, st.ec = NoError)
            ELSE With(os_chmod(f, p, mode), LAMBDA c :
                    IF c.err # "" THEN OpResult(f, 0, c.err, FALSE, FALSE)
                    ELSE OpResult(c.fs, 0, st.ec, FALSE, TRUE)))))

\* path::permissions(prms, opts)
permissions_throwing(f, p, prms, opts) == Throwing(permissions(f, p, prms, opts, NoError))

\* size of the first buffer of read_symlink
BufferSize == 256

RECURSIVE ReadlinkLoop(_, _)
\* the loop of read_symlink around ::readlink, which fills at most the buffer
ReadlinkLoop(text, buffer_size) ==
    With(Min({Len(text), buffer_size}), LAMBDA rc :
       IF rc < buffer_size THEN SubSeq(text, 1, rc)
       ELSE ReadlinkLoop(text, buffer_size * 2))

\* path::read_symlink(ec)
read_symlink(f, p, ec) ==
    With(get_file_type(f, p, ec), LAMBDA st :
       IF st.crash THEN OpResult(f, <<>>, NoError, TRUE, FALSE)
       ELSE IF st.type # "symlink" THEN OpResult(f, <<>>, "EINVAL", FALSE, FALSE)
       ELSE With(os_lstat(f, p), LAMBDA l :
               IF l.err # "" \/ f[l.slot].kind # "link"
               THEN OpResult(f, <<>>, IF l.err # "" THEN l.err ELSE "EINVAL", FALSE, FALSE)
               ELSE OpResult(f, ReadlinkLoop(f[l.slot].tgt, BufferSize), st.ec, FALSE,
                             TRUE)))

\* path::read_symlink()
read_symlink_throwing(f, p) == Throwing(read_symlink(f, p, NoError))

\* ------------------------------------------------------------------------
\* Tree-mutating operations of path

\* a mkdir that reports a success and creates nothing
mkdir_unmade(f, p, prms, ec) == OpResult(f, TRUE, NoError, FALSE, TRUE)

\* path::mkdir(prms, ec); on Windows the permissions are set by a second call
mkdir(f, p, prms, ec) ==
    With(status(f, p, NoError), LAMBDA st :
       IF st.crash THEN OpResult(f, FALSE, NoError, TRUE, FALSE)
       ELSE IF st.type # "none" /\ exists(f, p) THEN OpResult(f, FALSE, NoError, FALSE, TRUE)
       ELSE With(os_mkdir(f, p, IF win THEN {"r", "w"} ELSE prms \cap PermBits), LAMBDA m :
               IF m.err # "" THEN OpResult(f, FALSE, m.err, FALSE, FALSE)
               ELSE IF win
               THEN With(permissions(m.fs, p, prms, {"replace"}, NoError), LAMBDA c :
                       IF c.ec # NoError THEN OpResult(c.fs, FALSE, c.ec, FALSE, FALSE)
                       ELSE OpResult(c.fs, TRUE, NoError, FALSE, TRUE))
               ELSE OpResult(m.fs, TRUE, NoError, FALSE, TRUE)))

\* path::mkdir(prms)
mkdir_throwing(f, p, prms) == Throwing(mkdir(f, p, prms, NoError))

\* a test that takes every existing prefix for a conflict
mkdirs_rejects_all(st) == TRUE

\* a test that takes no existing prefix for a conflict
mkdirs_rejects_none(st) == FALSE

\* mkdirs gives up on a prefix that exists and is not a directory
mkdirs_rejects(st) == st.type # "directory"

RECURSIVE MkdirsLoop(_, _, _, _, _)
\* the for loop of mkdirs over the components of the path
MkdirsLoop(f, iter, this, current, ec) ==
    IF iter.pos = Len(this) THEN OpResult(f, TRUE, ec, FALSE, TRUE)
    ELSE With(iter.current, LAMBDA part :
         With(iterator_next(iter), LAMBDA nxt :
         With(root_name(this), LAMBDA rn :
            IF part = rn THEN MkdirsLoop(f, nxt, this, part, ec)
            ELSE With(append(current, part), LAMBDA cur :
                    IF cur # rn /\ cur # root_path(this)
                    THEN With(status(f, cur, NoError), LAMBDA st :
                            IF st.crash THEN OpResult(f, FALSE, ec, TRUE, FALSE)
                            ELSE IF st.ec # NoError /\ st.type # "not_found"
                            THEN OpResult(f, FALSE, st.ec, FALSE, FALSE)
                            ELSE IF ~exists(f, cur)
                            THEN With(mkdir(f, cur, PermBits, ec), LAMBDA m :
                                    IF m.crash \/ m.ec # NoError
                                    THEN OpResult(m.fs, FALSE, m.ec, m.crash, FALSE)
                                    ELSE MkdirsLoop(m.fs, nxt, this, cur, m.ec))
                            ELSE IF mkdirs_rejects(st)
                            THEN OpResult(f, FALSE, ec, FALSE, FALSE)
                            ELSE MkdirsLoop(f, nxt, this, cur, ec))
                    ELSE MkdirsLoop(f, nxt, this, cur, ec)))))

\* path::mkdirs(ec)
mkdirs(f, this, ec) == MkdirsLoop(f, begin(this), this, <<>>, NoError)

\* path::mkdirs(): the code is tested before the error-code form is called
mkdirs_throwing(f, this) ==
    With(NoError, LAMBDA ec :
    With(mkdirs(f, this, ec), LAMBDA r :
        [fs |-> r.fs, ret |-> r.ret, thrown |-> ec # NoError, crash |-> r.crash]))

\* path::move(new_path, ec)
move(f, this, new_path, ec) ==
    IF this # new_path
    THEN With(os_rename(f, this, new_path), LAMBDA r :
            OpResult(r.fs, 0, r.err, FALSE, r.err = ""))
    ELSE OpResult(f, 0, NoError, FALSE, TRUE)

\* path::move(new_path)
move_throwing(f, this, new_path) == Throwing(move(f, this, new_path, NoError))

\* path::remove()
remove_throwing(f, p, env) == Throwing(remove(f, p, NoError, env))

\* ------------------------------------------------------------------------
\* Filesystem operations

\* create_symlink(target, link, ec).  Fault "privilege": the first
\* CreateSymbolicLinkW fails with ERROR_PRIVILEGE_NOT_HELD and the call is
\* retried with the unprivileged flag.
create_symlink(f, target, link, ec, env) ==
    IF win
    THEN With(status(f, target, NoError), LAMBDA st :
         With(os_symlink(f, target, link), LAMBDA r :
            IF st.crash THEN OpResult(f, 0, ec, TRUE, FALSE)
            ELSE IF env.fault.type = "privilege"
            THEN IF r.err = "" THEN OpResult(r.fs, 0, ec, FALSE, TRUE)
                 ELSE OpResult(f, 0, "EPRIVILEGE", FALSE, FALSE)
            ELSE IF r.err # "" THEN OpResult(f, 0, r.err, FALSE, FALSE)
            ELSE OpResult(r.fs, 0, ec, FALSE, TRUE)))
    ELSE With(os_symlink(f, target, link), LAMBDA r :
            IF r.err # "" THEN OpResult(f, 0, r.err, FALSE, FALSE)
            ELSE OpResult(r.fs, 0, ec, FALSE, TRUE))

\* create_symlink(target, link)
create_symlink_throwing(f, target, link, env) ==
    Throwing(create_symlink(f, target, link, NoError, env))

\* create_hardlink(target, link, ec)
create_hardlink(f, target, link, ec) ==
    With(os_link(f, target, link), LAMBDA r :
       IF r.err # "" THEN OpResult(f, 0, r.err, FALSE, FALSE)
       ELSE OpResult(r.fs, 0, ec, FALSE, TRUE))

\* create_hardlink(target, link)
create_hardlink_throwing(f, target, link) ==
    Throwing(create_hardlink(f, target, link, NoError))

\* the fields of two stat results that equivalent compares
same_entry(a, b) == a.ino = b.ino /\ a.size = b.size /\ a.mtime = b.mtime

\* an equivalent that reports an error as soon as one path cannot be opened
equivalent_reports_either(failed1, failed2) == failed1 \/ failed2
\* equivalent reports an error only when neither path can be opened
equivalent_reports(failed1, failed2) == failed1 /\ failed2

\* equivalent(path1, path2, ec)
equivalent(f, path1, path2, ec) ==
    With(os_stat(f, path1), LAMBDA r1 :
    With(os_stat(f, path2), LAMBDA r2 :
       IF r1.err # "" \/ r2.err # ""
       THEN IF equivalent_reports(r1.err # "", r2.err # "")
            THEN OpResult(f, FALSE, IF r1.err # "" THEN r1.err ELSE r2.err, FALSE, FALSE)
            ELSE OpResult(f, FALSE, NoError, FALSE, TRUE)
       ELSE OpResult(f, same_entry(f[r1.slot], f[r2.slot]), NoError, FALSE, TRUE)))

\* equivalent(path1, path2)
equivalent_throwing(f, path1, path2) == Throwing(equivalent(f, path1, path2, NoError))

\* ------------------------------------------------------------------------
\* The filesystems the program starts on, and the inputs of its operations

Dir(i) == [kind |-> "dir", tgt |-> <<>>, ino |-> i, perms |-> {"r", "w", "x"},
           size |-> 0, mtime |-> 1]
File(i) == [kind |-> "file", tgt |-> <<>>, ino |-> i, perms |-> {"r", "w"},
            size |-> 1, mtime |-> 1]
Link(i, t) == [kind |-> "link", tgt |-> t, ino |-> i, perms |-> {"r", "w", "x"},
               size |-> Len(t), mtime |-> 1]

RECURSIVE Join(_)
Join(slot) ==
    IF slot = <<>> THEN <<>>
    ELSE <<preferred_separator>> \o Head(slot) \o Join(Tail(slot))

\* the absolute path string of an entry
AbsPath(slot) ==
    (IF win THEN <<"C", ":">> ELSE <<>>)
    \o (IF slot = <<>> THEN <<preferred_separator>> ELSE Join(slot))

\* a file and an empty directory
FsPlain == (<<>> :> Dir(0)) @@ (<<nd>> :> Dir(1)) @@ (<<nx>> :> File(2))
\* a directory holding a file and a link to another directory
FsLinkedDir ==
    (<<>> :> Dir(0)) @@ (<<nd>> :> Dir(1)) @@ (<<nd, nx>> :> File(2))
    @@ (<<nd, nl>> :> Link(3, AbsPath(<<nt>>))) @@ (<<nt>> :> Dir(4))
    @@ (<<nt, nx>> :> File(5))
\* a directory holding a link to a directory whose entry has a ':' in its name
FsLinkedColon ==
    (<<>> :> Dir(0)) @@ (<<nd>> :> Dir(1))
    @@ (<<nd, nl>> :> Link(3, AbsPath(<<nt>>))) @@ (<<nt>> :> Dir(4))
    @@ (<<nt, nxy>> :> File(5))
\* nested directories
FsNested ==
    (<<>> :> Dir(0)) @@ (<<nd>> :> Dir(1)) @@ (<<nd, nt>> :> Dir(2))
    @@ (<<nd, nt, nx>> :> File(3)) @@ (<<nd, nx>> :> File(4))
\* a dangling link, a link to a file and two names of one file
FsLinks ==
    (<<>> :> Dir(0)) @@ (<<nd>> :> Dir(1)) @@ (<<nd, nl>> :> Link(2, AbsPath(<<nt>>)))
    @@ (<<nl>> :> Link(3, AbsPath(<<nx>>))) @@ (<<nx>> :> File(4))
    @@ (<<nd, nx>> :> File(4))

\* ':' is not legal in a Windows file name
Templates ==
    {FsPlain, FsLinkedDir, FsNested, FsLinks} \cup (IF win THEN {} ELSE {FsLinkedColon})

InputSlots == {<<>>, <<nd>>, <<nd, nx>>, <<nd, nl>>, <<nd, nt>>, <<nt>>, <<nx>>, <<nl>>}
InputPaths == {AbsPath(s) : s \in InputSlots} \cup {<<"/">>, <<>>}

FaultSlots == {<<nd>>, <<nt>>, <<nd, nt>>, <<nd, nx>>, <<nd, nl>>}
Faults ==
    {NoFault}
    \cup {[type |-> t, slot |-> s, at |-> 0] :
            t \in {"open_denied", "open_fail", "remove_fail"}, s \in FaultSlots}
    \cup {[type |-> "read_fail", slot |-> s, at |-> k] :
            s \in {<<nd>>, <<nt>>, <<nd, nt>>}, k \in 1..MaxReadFail}

\* paths of entries that do not exist yet
NewSlots == {<<nt, nd>>, <<nt, nd, nt>>, <<nx, nd>>, <<nd, nl, nd>>}
AllPaths == InputPaths \cup {AbsPath(s) : s \in NewSlots}
\* a relative path, a path with a trailing separator and a path that comes
\* back up through a directory it has to create
MkdirsPaths == {nt \o <<preferred_separator>> \o nd,
                AbsPath(<<nt, nd>>) \o <<preferred_separator>>,
                AbsPath(<<nt, dotdot, nx, nd>>)}
\* the second path of move, create_symlink and create_hardlink
SecondPaths == {AbsPath(s) : s \in {<<nd>>, <<nx>>, <<nt>>, <<nt, nd>>, <<nd, nt>>, <<nx, nd>>}}
\* the second path of equivalent
EquivalentPaths == InputPaths \cup {AbsPath(<<nt, nd>>)}
LinkTargets == {AbsPath(s) : s \in {<<nd>>, <<nx>>, <<nl>>, <<nt>>, <<nd, nl>>}}

PermInputs == {{"r"}, {"r", "w"}}
OptInputs == {{}, {"replace"}, {"add"}, {"remove"}, {"add", "nofollow"}}

\* what the environment decides during one operation
Envs ==
    {e \in [order : {1, 2}, fault : Faults, moved : BOOLEAN] : win \/ e.moved}
NoEnv == [order |-> 1, fault |-> NoFault, moved |-> TRUE]
RemoveEnvs ==
    {NoEnv} \cup {[NoEnv EXCEPT !.fault = [type |-> "remove_fail", slot |-> s, at |-> 0]] :
                    s \in {<<nd>>, <<nx>>}}
SymlinkEnvs ==
    {NoEnv} \cup (IF win THEN {[NoEnv EXCEPT !.fault = [type |-> "privilege", slot |-> <<>>,
                                                         at |-> 0]]}
                  ELSE {})

\* the values the caller's std::error_code can hold before a call
EcValues == {NoError, "EINVAL"}

\* no path value is under study
NoParts ==
    [path |-> <<>>, called |-> {}, root_name |-> <<>>, root_directory |-> <<>>,
     root_path |-> <<>>, relative_path |-> <<>>, get_filename |-> <<>>,
     other |-> <<>>, joined |-> <<>>,
     walk |-> "none", it |-> end(<<>>), seen |-> <<>>, from |-> 0]

NoLast ==
    [op |-> "none", form |-> "none", path |-> <<>>, path2 |-> <<>>, ecIn |-> NoError,
     ec |-> NoError, ret |-> 0, thrown |-> FALSE, crash |-> FALSE, ok |-> FALSE,
     env |-> NoEnv, log |-> <<>>, refec |-> NoError, refret |-> 0,
     retb |-> FALSE, retp |-> <<>>, rett |-> "none", refretb |-> FALSE, refretp |-> <<>>,
     prms |-> {}, opts |-> {}, made |-> 0]

Init ==
    /\ win \in BOOLEAN
    /\ fs \in Templates
    /\ fs0 = fs
    /\ last = NoLast
    /\ its = <<>>
    /\ parts = NoParts

\* a run is one call of one operation on the filesystem it starts on
Ready == last.op = "none"

Done(f, l) ==
    /\ fs0' = fs
    /\ fs' = f
    /\ last' = l
    /\ UNCHANGED <<win, its, parts>>

\* the kind of value an operation returns
RetKind(op) ==
    IF op \in {"mkdir", "mkdirs", "mkdirs_again", "remove", "equivalent"} THEN "bool"
    ELSE IF op = "read_symlink" THEN "path"
    ELSE IF op \in {"status", "symlink_status"} THEN "type"
    ELSE "num"

\* ret, retb, retp, rett: the returned number, boolean, path or file type
EcLast(op, p, p2, e, env, r) ==
    [NoLast EXCEPT !.op = op, !.form = "ec", !.path = p, !.path2 = p2, !.ecIn = e,
                   !.ec = r.ec, !.crash = r.crash, !.ok = r.ok, !.env = env,
                   !.ret = IF RetKind(op) = "num" THEN r.ret ELSE 0,
                   !.retb = IF RetKind(op) = "bool" THEN r.ret ELSE FALSE,
                   !.retp = IF RetKind(op) = "path" THEN r.ret ELSE <<>>,
                   !.rett = IF RetKind(op) = "type" THEN r.ret ELSE "none"]

\* ref: the result of the error-code form on the same filesystem
ThrowLast(op, p, p2, env, t, ref) ==
    [NoLast EXCEPT !.op = op, !.form = "throw", !.path = p, !.path2 = p2,
                   !.thrown = t.thrown, !.crash = t.crash, !.env = env,
                   !.ret = IF RetKind(op) = "num" THEN t.ret ELSE 0,
                   !.retb = IF RetKind(op) = "bool" THEN t.ret ELSE FALSE,
                   !.retp = IF RetKind(op) = "path" THEN t.ret ELSE <<>>,
                   !.refec = ref.ec,
                   !.refret = IF RetKind(op) = "num" THEN ref.ret ELSE 0,
                   !.refretb = IF RetKind(op) = "bool" THEN ref.ret ELSE FALSE,
                   !.refretp = IF RetKind(op) = "path" THEN ref.ret ELSE <<>>]

\* path::status(std::error_code&)
StatusEc ==
    /\ Ready
    /\ \E p \in AllPaths, e \in EcValues :
         \E r \in {status(fs, p, e)} :
            Done(fs, [EcLast("status", p, <<>>, e, NoEnv,
                             [ec |-> r.ec, ret |-> r.type, crash |-> r.crash,
                              ok |-> r.ec = NoError])
                        EXCEPT !.prms = r.prms])

\* path::symlink_status(std::error_code&)
SymlinkStatusEc ==
    /\ Ready
    /\ \E p \in AllPaths, e \in EcValues :
         \E r \in {symlink_status(fs, p, e)} :
            Done(fs, [EcLast("symlink_status", p, <<>>, e, NoEnv,
                             [ec |-> r.ec, ret |-> r.type, crash |-> r.crash,
                              ok |-> r.ec = NoError])
                        EXCEPT !.prms = r.prms])

\* path::file_size(std::error_code&)
FileSizeEc ==
    /\ Ready
    /\ \E p \in AllPaths, e \in EcValues :
         \E r \in {file_size(fs, p, e)} :
            Done(r.fs, EcLast("file_size", p, <<>>, e, NoEnv, r))

\* path::file_size()
FileSizeThrowing ==
    /\ Ready
    /\ \E p \in AllPaths :
         \E t \in {file_size_throwing(fs, p)} :
            Done(t.fs, ThrowLast("file_size", p, <<>>, NoEnv, t, file_size(fs, p, NoError)))

\* path::last_write_time(std::error_code&)
LastWriteTimeEc ==
    /\ Ready
    /\ \E p \in AllPaths, e \in EcValues :
         \E r \in {last_write_time(fs, p, e)} :
            Done(r.fs, EcLast("last_write_time", p, <<>>, e, NoEnv, r))

\* path::last_write_time()
LastWriteTimeThrowing ==
    /\ Ready
    /\ \E p \in AllPaths :
         \E t \in {last_write_time_throwing(fs, p)} :
            Done(t.fs, ThrowLast("last_write_time", p, <<>>, NoEnv, t,
                                 last_write_time(fs, p, NoError)))

\* path::hard_link_count(std::error_code&)
HardLinkCountEc ==
    /\ Ready
    /\ \E p \in AllPaths, e \in EcValues :
         \E r \in {hard_link_count(fs, p, e)} :
            Done(r.fs, EcLast("hard_link_count", p, <<>>, e, NoEnv, r))

\* path::hard_link_count()
HardLinkCountThrowing ==
    /\ Ready
    /\ \E p \in AllPaths :
         \E t \in {hard_link_count_throwing(fs, p)} :
            Done(t.fs, ThrowLast("hard_link_count", p, <<>>, NoEnv, t,
                                 hard_link_count(fs, p, NoError)))

\* path::permissions(perms, perm_options, std::error_code&)
PermissionsEc ==
    /\ Ready
    /\ \E p \in InputPaths, e \in EcValues, prms \in PermInputs, opts \in OptInputs :
         \E r \in {permissions(fs, p, prms, opts, e)} :
            Done(r.fs, [EcLast("permissions", p, <<>>, e, NoEnv, r)
                          EXCEPT !.prms = prms, !.opts = opts])

\* path::permissions(perms, perm_options)
PermissionsThrowing ==
    /\ Ready
    /\ \E p \in InputPaths, prms \in PermInputs, opts \in OptInputs :
         \E t \in {permissions_throwing(fs, p, prms, opts)} :
            Done(t.fs, [ThrowLast("permissions", p, <<>>, NoEnv, t,
                                  permissions(fs, p, prms, opts, NoError))
                          EXCEPT !.prms = prms, !.opts = opts])

\* path::read_symlink(std::error_code&)
ReadSymlinkEc ==
    /\ Ready
    /\ \E p \in AllPaths, e \in EcValues :
         \E r \in {read_symlink(fs, p, e)} :
            Done(r.fs, EcLast("read_symlink", p, <<>>, e, NoEnv, r))

\* path::read_symlink()
ReadSymlinkThrowing ==
    /\ Ready
    /\ \E p \in AllPaths :
         \E t \in {read_symlink_throwing(fs, p)} :
            Done(t.fs, ThrowLast("read_symlink", p, <<>>, NoEnv, t,
                                 read_symlink(fs, p, NoError)))

\* path::mkdir(perms, std::error_code&)
MkdirEc ==
    /\ Ready
    /\ \E p \in AllPaths, e \in EcValues :
         \E r \in {mkdir(fs, p, PermBits, e)} :
            Done(r.fs, EcLast("mkdir", p, <<>>, e, NoEnv, r))

\* path::mkdir(perms)
MkdirThrowing ==
    /\ Ready
    /\ \E p \in AllPaths :
         \E t \in {mkdir_throwing(fs, p, PermBits)} :
            Done(t.fs, ThrowLast("mkdir", p, <<>>, NoEnv, t, mkdir(fs, p, PermBits, NoError)))

\* path::mkdirs(std::error_code&)
MkdirsEc ==
    /\ Ready
    /\ \E p \in AllPaths \cup MkdirsPaths, e \in EcValues :
         \E r \in {mkdirs(fs, p, e)} :
            Done(r.fs, EcLast("mkdirs", p, <<>>, e, NoEnv, r))

\* path::mkdirs(std::error_code&) called again on the same path, on the tree
\* the first call left; refretb: what the first call returned, made: the
\* number of entries it created
MkdirsAgainEc ==
    /\ last.op = "mkdirs" /\ last.form = "ec" /\ ~last.crash
    /\ \E r \in {mkdirs(fs, last.path, last.ec)} :
          Done(r.fs, [EcLast("mkdirs_again", last.path, <<>>, last.ec, NoEnv, r)
                        EXCEPT !.refretb = last.retb,
                               !.made = Cardinality(DOMAIN fs) - Cardinality(DOMAIN fs0)])

\* path::mkdirs()
MkdirsThrowing ==
    /\ Ready
    /\ \E p \in AllPaths \cup MkdirsPaths :
         \E t \in {mkdirs_throwing(fs, p)} :
            Done(t.fs, ThrowLast("mkdirs", p, <<>>, NoEnv, t, mkdirs(fs, p, NoError)))

\* path::move(const path&, std::error_code&)
MoveEc ==
    /\ Ready
    /\ \E p \in InputPaths, q \in SecondPaths, e \in EcValues :
         \E r \in {move(fs, p, q, e)} :
            Done(r.fs, EcLast("move", p, q, e, NoEnv, r))

\* path::move(const path&)
MoveThrowing ==
    /\ Ready
    /\ \E p \in InputPaths, q \in SecondPaths :
         \E t \in {move_throwing(fs, p, q)} :
            Done(t.fs, ThrowLast("move", p, q, NoEnv, t, move(fs, p, q, NoError)))

\* path::remove(std::error_code&)
RemoveEc ==
    /\ Ready
    /\ \E p \in AllPaths, e \in EcValues, env \in RemoveEnvs :
         \E r \in {remove(fs, p, e, env)} :
            Done(r.fs, EcLast("remove", p, <<>>, e, env, r))

\* path::remove()
RemoveThrowing ==
    /\ Ready
    /\ \E p \in AllPaths, env \in RemoveEnvs :
         \E t \in {remove_throwing(fs, p, env)} :
            Done(t.fs, ThrowLast("remove", p, <<>>, env, t, remove(fs, p, NoError, env)))

\* path::remove_all(std::error_code&)
RemoveAllEc ==
    /\ Ready
    /\ \E p \in InputPaths, e \in EcValues, env \in Envs :
         \E r \in {remove_all(fs, p, e, env)} :
            Done(r.fs, [EcLast("remove_all", p, <<>>, e, env, r) EXCEPT !.log = r.log])

\* path::remove_all()
RemoveAllThrowing ==
    /\ Ready
    /\ \E p \in InputPaths, env \in Envs :
         \E t \in {remove_all_throwing(fs, p, env)} :
            Done(t.fs, ThrowLast("remove_all", p, <<>>, env, t,
                                 remove_all(fs, p, NoError, env)))

\* create_symlink(target, link, std::error_code&)
CreateSymlinkEc ==
    /\ Ready
    /\ \E p \in LinkTargets, q \in SecondPaths, e \in EcValues, env \in SymlinkEnvs :
         \E r \in {create_symlink(fs, p, q, e, env)} :
            Done(r.fs, EcLast("create_symlink", p, q, e, env, r))

\* create_symlink(target, link)
CreateSymlinkThrowing ==
    /\ Ready
    /\ \E p \in LinkTargets, q \in SecondPaths, env \in SymlinkEnvs :
         \E t \in {create_symlink_throwing(fs, p, q, env)} :
            Done(t.fs, ThrowLast("create_symlink", p, q, env, t,
                                 create_symlink(fs, p, q, NoError, env)))

\* create_hardlink(target, link, std::error_code&)
CreateHardlinkEc ==
    /\ Ready
    /\ \E p \in LinkTargets, q \in SecondPaths, e \in EcValues :
         \E r \in {create_hardlink(fs, p, q, e)} :
            Done(r.fs, EcLast("create_hardlink", p, q, e, NoEnv, r))

\* create_hardlink(target, link)
CreateHardlinkThrowing ==
    /\ Ready
    /\ \E p \in LinkTargets, q \in SecondPaths :
         \E t \in {create_hardlink_throwing(fs, p, q)} :
            Done(t.fs, ThrowLast("create_hardlink", p, q, NoEnv, t,
                                 create_hardlink(fs, p, q, NoError)))

\* equivalent(path1, path2, std::error_code&)
EquivalentEc ==
    /\ Ready
    /\ \E p \in InputPaths, q \in EquivalentPaths, e \in EcValues :
         \E r \in {equivalent(fs, p, q, e)} :
            Done(r.fs, EcLast("equivalent", p, q, e, NoEnv, r))

\* equivalent(path1, path2)
EquivalentThrowing ==
    /\ Ready
    /\ \E p \in InputPaths, q \in EquivalentPaths :
         \E t \in {equivalent_throwing(fs, p, q)} :
            Done(t.fs, ThrowLast("equivalent", p, q, NoEnv, t,
                                 equivalent(fs, p, q, NoError)))

Next ==
    \/ StatusEc
    \/ SymlinkStatusEc
    \/ FileSizeEc
    \/ FileSizeThrowing
    \/ LastWriteTimeEc
    \/ LastWriteTimeThrowing
    \/ HardLinkCountEc
    \/ HardLinkCountThrowing
    \/ PermissionsEc
    \/ PermissionsThrowing
    \/ ReadSymlinkEc
    \/ ReadSymlinkThrowing
    \/ MkdirEc
    \/ MkdirThrowing
    \/ MkdirsEc
    \/ MkdirsAgainEc
    \/ MkdirsThrowing
    \/ MoveEc
    \/ MoveThrowing
    \/ RemoveEc
    \/ RemoveThrowing
    \/ RemoveAllEc
    \/ RemoveAllThrowing
    \/ CreateSymlinkEc
    \/ CreateSymlinkThrowing
    \/ CreateHardlinkEc
    \/ CreateHardlinkThrowing
    \/ EquivalentEc
    \/ EquivalentThrowing

Spec == Init /\ [][Next]_vars

\* ------------------------------------------------------------------------
\* The life of directory_iterators over a filesystem that does not change:
\* two iterators a and b are constructed, incremented and destroyed.
\* st: the object does not exist yet, is alive, or was destroyed; call: the
\* last call on it with the caller's error code before (ecIn) and after (ec);
\* p: the path it was constructed on; yielded: the OS names of the entries
\* it was positioned on, in order; errs: an OS call of the walk failed.

NoIt ==
    [st |-> "none", it |-> NoImpl, call |-> "none", ecIn |-> NoError, ec |-> NoError,
     thrown |-> FALSE, p |-> <<>>, yielded |-> <<>>, errs |-> FALSE]

Track(w, call, i, ecIn, ec, thrown) ==
    [w EXCEPT !.it = i, !.call = call, !.ecIn = ecIn, !.ec = ec, !.thrown = thrown,
              !.yielded = IF i._current # <<>> THEN Append(@, i.name) ELSE @,
              !.errs = @ \/ i.oserr # ""]

Iterators == {"a", "b"}
\* b is the iterator a is compared with
IterPaths(x) ==
    IF x = "a"
    THEN {<<>>} \cup {AbsPath(s) : s \in {<<nd>>, <<nt>>, <<nx>>, <<nd, nl>>, <<nx, nd>>}}
    ELSE {<<>>, AbsPath(<<nd>>)}
IterEnvs(x) == IF x = "a" THEN Envs ELSE {NoEnv}
IterEcValues(x) == IF x = "a" THEN EcValues ELSE {NoError}

IterTemplates == {FsLinkedDir, FsNested} \cup (IF win THEN {} ELSE {FsLinkedColon})

InitIter ==
    /\ win \in BOOLEAN
    /\ fs \in IterTemplates
    /\ fs0 = fs
    /\ last = NoLast
    /\ its = [x \in Iterators |-> NoIt]
    /\ parts = NoParts

SetIt(x, w) ==
    /\ its' = [its EXCEPT ![x] = w]
    /\ UNCHANGED <<win, fs, fs0, last, parts>>

\* directory_iterator(path p, std::error_code& ec)
ItConstructEc ==
    \E x \in Iterators :
       /\ its[x].st = "none"
       /\ \E p \in IterPaths(x), e \in IterEcValues(x), env \in IterEnvs(x) :
            \E c \in {directory_iterator_ec(fs, p, e, env)} :
               SetIt(x, Track([NoIt EXCEPT !.st = "live", !.p = p],
                              "ctor_ec", c.it, e, c.ec, FALSE))

\* directory_iterator(path p): when it throws there is no object
ItConstructThrowing ==
    /\ its["a"].st = "none"
    /\ \E p \in IterPaths("a"), env \in IterEnvs("a") :
         \E c \in {directory_iterator_throwing(fs, p, env)} :
            SetIt("a", Track([NoIt EXCEPT !.st = IF c.thrown THEN "dead" ELSE "live",
                                          !.p = p],
                             "ctor", c.it, NoError, NoError, c.thrown))

\* directory_iterator()
ItDefault ==
    \E x \in Iterators :
       /\ its[x].st = "none"
       /\ SetIt(x, Track([NoIt EXCEPT !.st = "live"], "default",
                         directory_iterator_default, NoError, NoError, FALSE))

\* directory_iterator::increment(std::error_code& ec)
ItIncrement ==
    \E x \in Iterators :
       /\ its[x].st = "live"
       /\ \E e \in IterEcValues(x) :
            \E r \in {directory_iterator_increment(its[x].it, e)} :
               SetIt(x, Track(its[x], "increment", r.it, e, r.ec, FALSE))

\* directory_iterator::operator++
ItNext ==
    /\ its["a"].st = "live"
    /\ \E r \in {directory_iterator_next(its["a"].it)} :
          SetIt("a", Track(its["a"], "next", r.it, NoError, NoError, r.thrown))

\* the end of the life of a directory_iterator, which owns its impl
ItDestroy ==
    \E x \in Iterators :
       /\ its[x].st = "live"
       /\ SetIt(x, [its[x] EXCEPT !.st = "dead", !.it = impl_destroy(@), !.call = "destroy"])

NextIter ==
    \/ ItConstructEc
    \/ ItConstructThrowing
    \/ ItDefault
    \/ ItIncrement
    \/ ItNext
    \/ ItDestroy

SpecIter == InitIter /\ [][NextIter]_vars

\* ------------------------------------------------------------------------
\* The decomposition of one path value: the program constructs a path from
\* a native string and calls its decomposition members, each at most once,
\* in any order.

\* the longest native string a path is constructed from
MaxPathLen == 4
\* a letter, the two separators and the drive colon
PathChars == {"a", "/", "\\", ":"}
NativeStrings == UNION {[1..k -> PathChars] : k \in 0..MaxPathLen}

\* path::path(std::string)
InitPath ==
    /\ win \in BOOLEAN
    /\ fs = FsPlain
    /\ fs0 = fs
    /\ last = NoLast
    /\ its = <<>>
    /\ \E s \in NativeStrings : parts = [NoParts EXCEPT !.path = s]

Decomposed(member, result) ==
    /\ member \notin parts.called
    /\ parts' = [parts EXCEPT !.called = @ \cup {member}, ![member] = result]
    /\ UNCHANGED <<win, fs, fs0, last, its>>

\* path::root_name()
RootName == Decomposed("root_name", root_name(parts.path))
\* path::root_directory()
RootDirectory == Decomposed("root_directory", root_directory(parts.path))
\* path::root_path()
RootPath == Decomposed("root_path", root_path(parts.path))
\* path::relative_path()
RelativePath == Decomposed("relative_path", relative_path(parts.path))
\* path::get_filename()
GetFilename == Decomposed("get_filename", get_filename(parts.path))

NextPath ==
    \/ RootName
    \/ RootDirectory
    \/ RootPath
    \/ RelativePath
    \/ GetFilename

SpecPath == InitPath /\ [][NextPath]_vars

\* ------------------------------------------------------------------------
\* One path::iterator over one path value: the program walks forward from
\* begin() (and may step back once), or backward from end().
\* walk: "fwd" after begin(), "bwd" after end(), "back" after a step back;
\* seen: the components read so far; from: the position before the last ++.

Walked(w, it, seen, from) ==
    /\ parts' = [parts EXCEPT !.walk = w, !.it = it, !.seen = seen, !.from = from]
    /\ UNCHANGED <<win, fs, fs0, last, its>>

\* path::begin()
PathBegin ==
    /\ parts.walk = "none"
    /\ Walked("fwd", begin(parts.path), <<>>, 0)

\* path::end()
PathEnd ==
    /\ parts.walk = "none"
    /\ Walked("bwd", end(parts.path), <<>>, 0)

\* *it, then path::iterator::operator++ on an iterator that is not end()
PathIncrement ==
    /\ parts.walk = "fwd"
    /\ parts.it.pos # Len(parts.path)
    /\ Walked("fwd", iterator_next(parts.it), Append(parts.seen, parts.it.current),
              parts.it.pos)

\* path::iterator::operator-- on an iterator that is not begin(), then *it:
\* the next step of a backward walk, or the step back after a ++
PathDecrement ==
    /\ parts.it.pos # 0
    /\ \E it \in {iterator_prev(parts.it)} :
          \/ /\ parts.walk = "bwd"
             /\ Len(parts.seen) <= Len(parts.path)
             /\ Walked("bwd", it, Append(parts.seen, it.current), 0)
          \/ /\ parts.walk = "fwd"
             /\ parts.seen # <<>>
             /\ Walked("back", it, parts.seen, parts.from)

NextWalk ==
    \/ PathBegin
    \/ PathEnd
    \/ PathIncrement
    \/ PathDecrement

SpecWalk == InitPath /\ [][NextWalk]_vars

\* ------------------------------------------------------------------------
\* The join of two path values: the program constructs a path, then appends
\* a second path to it with operator/ once.

\* the longest native string of the second path
MaxOtherLen == 3
OtherStrings == UNION {[1..k -> PathChars] : k \in 0..MaxOtherLen}

\* path::operator/(const path&)
PathAppend ==
    /\ parts.called = {}
    /\ \E b \in OtherStrings :
          parts' = [parts EXCEPT !.called = {"append"}, !.other = b,
                                 !.joined = append(parts.path, b)]
    /\ UNCHANGED <<win, fs, fs0, last, its>>

NextJoin == PathAppend

SpecJoin == InitPath /\ [][NextJoin]_vars

\* ------------------------------------------------------------------------
\* Properties of remove_all

RemoveAllCall == last.op = "remove_all" /\ ~last.crash
RemoveAllEcCall == RemoveAllCall /\ last.form = "ec"
Removed == (DOMAIN fs0) \ (DOMAIN fs)

\* the links below the directory of the call that lead to a directory outside it
OutsideLinks(top) ==
    {s \in DOMAIN fs0 :
        /\ fs0[s].kind = "link" /\ IsPrefix(top, s) /\ s # top
        /\ LET t == os_stat(fs0, AbsPath(s))
           IN t.err = "" /\ fs0[t.slot].kind = "dir" /\ ~IsPrefix(top, t.slot)}

\* C1: remove_all of a directory does not descend into a child that is a
\* symbolic link to a directory: every entry of the directory the link leads
\* to stays as it was, and when the call succeeds the link itself is gone.
C1_LinkedDirectoryKept ==
    RemoveAllCall =>
        LET top == os_lstat(fs0, last.path)
        IN (top.err = "" /\ fs0[top.slot].kind = "dir") =>
              \A s \in OutsideLinks(top.slot) :
                 /\ \A e \in DOMAIN fs0 :
                       IsPrefix(os_stat(fs0, AbsPath(s)).slot, e)
                          => e \in DOMAIN fs /\ fs[e] = fs0[e]
                 /\ (last.form = "ec" /\ last.ec = NoError) => s \notin DOMAIN fs

Failed(e) == e.err # "" /\ ~(e.call = "opendir" /\ e.err = "EACCES")

\* C3: when a step of remove_all(p, ec) fails (opening or advancing the
\* enumeration, or a removal), the call returns the sentinel with ec set and
\* no later step removes an entry.
C3_StopsAtFirstFailure ==
    RemoveAllEcCall =>
        \A i \in DOMAIN last.log :
            Failed(last.log[i]) =>
                /\ last.ret = Unknown
                /\ last.ec # NoError
                /\ \A j \in DOMAIN last.log : j > i => ~last.log[j].removed

\* C4: when remove_all(p, ec) returns a count with ec empty, the count is
\* the number of entries that existed before the call and are gone after it.
C4_CountIsRemoved ==
    (RemoveAllEcCall /\ last.ec = NoError /\ last.ret # Unknown)
        => last.ret = Cardinality(Removed)

\* ------------------------------------------------------------------------
\* Properties of the two forms of an operation

\* C9: an error-code form that succeeds leaves ec empty, whatever ec held
\* when the call was made.
C9_SuccessClearsEc ==
    (last.form = "ec" /\ ~last.crash /\ last.ok) => last.ec = NoError

BothForms ==
    {"file_size", "last_write_time", "hard_link_count", "permissions", "read_symlink",
     "mkdir", "mkdirs", "move", "remove", "remove_all"}

\* C10: on the same filesystem the throwing form raises exactly when the
\* error-code form leaves a code, and otherwise returns what the error-code
\* form returns.
C10_FormsAgree ==
    (last.form = "throw" /\ last.op \in BothForms /\ ~last.crash) =>
        /\ last.thrown <=> (last.refec # NoError)
        /\ ~last.thrown => /\ last.ret = last.refret
                            /\ last.retb = last.refretb
                            /\ last.retp = last.refretp

\* ------------------------------------------------------------------------
\* Properties of directory_iterator

\* C5: the OS handle an iterator opened is released exactly once: when the
\* enumeration is exhausted, or at the latest when the iterator is destroyed,
\* also after an error; it is never released twice and never left open.
C5_HandleReleasedOnce ==
    \A x \in Iterators :
       LET w == its[x]
       IN /\ w.it.closes <= 1
          /\ w.it.closes = 1 => w.it.opened
          /\ w.it.exhausted => w.it.closes = 1
          /\ (w.st = "dead" /\ w.it.opened) => w.it.closes = 1
          /\ (w.st = "live" /\ w.it.opened /\ w.it.closes = 0) => w.it._dir

\* an iterator whose walk was aborted by an OS error before the end of the
\* directory was destroyed
C5_Witness ==
    LET w == its["a"]
    IN w.st = "dead" /\ w.it.opened /\ w.errs /\ ~w.it.exhausted /\ w.it.closes = 1

\* the names of the entries of the directory an iterator was constructed on
EntryNames(w) ==
    LET d == os_stat(fs, w.p)
    IN {s[Len(s)] : s \in Children(fs, d.slot)}

\* C6: after its construction and after every increment an iterator is at
\* the end or on an entry whose name is neither "." nor ".."; a walk to the
\* end without OS errors is positioned on every entry of the directory
\* exactly once.
C6_SkipsDotsYieldsAll ==
    \A x \in Iterators :
       LET w == its[x]
       IN /\ (w.st = "live" /\ w.it._current # <<>>) => w.it.name \notin {dot, dotdot}
          /\ (w.it.exhausted /\ ~w.errs) =>
                /\ {w.yielded[i] : i \in DOMAIN w.yielded} = EntryNames(w)
                /\ Len(w.yielded) = Cardinality(EntryNames(w))

\* a directory of two entries was walked to its end
C6_Witness ==
    LET w == its["a"]
    IN w.st = "live" /\ w.it.exhausted /\ ~w.errs /\ Len(w.yielded) = 2

\* the construction of the iterator failed to open its directory
OpenFailed(w) ==
    w.call \in {"ctor_ec", "ctor"} /\ w.p # <<>> /\ ~w.it.opened /\ w.it.oserr # ""

\* C7: a construction on a non-empty path whose open fails gives the end
\* state; a permission-denied failure is not reported, any other failure is
\* reported (ec set by the error-code constructor, an exception thrown by
\* the throwing constructor).
C7_OpenFailureReported ==
    \A x \in Iterators :
       LET w == its[x]
       IN OpenFailed(w) =>
             /\ w.it._current = <<>>
             /\ IF w.it.oserr = "EACCES"
                THEN ~w.thrown /\ w.ec = w.ecIn
                ELSE /\ w.call = "ctor_ec" => w.ec = w.it.oserr
                     /\ w.call = "ctor" => w.thrown

\* the iterator is in one of the states the end state is reached by
AtEnd(w) ==
    /\ w.st = "live"
    /\ \/ w.call = "default"
       \/ w.p = <<>>
       \/ w.it.exhausted

\* C8: the iterators at the end (constructed on the empty path, default
\* constructed, or having exhausted any directory) are equal to each other
\* and to a default-constructed one; an iterator on an entry is equal to none
\* of them.
C8_EndStateCanonical ==
    LET a == its["a"]
        b == its["b"]
    IN /\ (AtEnd(a) /\ AtEnd(b)) => directory_iterator_eq(a.it, b.it)
       /\ AtEnd(a) => directory_iterator_eq(a.it, directory_iterator_default)
       /\ (a.st = "live" /\ a.it._current # <<>> /\ AtEnd(b))
             => ~directory_iterator_eq(a.it, b.it)

\* an iterator that exhausted a directory of entries is compared with one
\* constructed on the empty path
C8_Witness ==
    LET a == its["a"]
        b == its["b"]
    IN /\ a.st = "live" /\ a.it.exhausted /\ a.yielded # <<>>
       /\ b.st = "live" /\ b.call = "ctor_ec" /\ b.p = <<>>

\* ------------------------------------------------------------------------
\* Properties of status and symlink_status

StatusCall == last.op \in {"status", "symlink_status"} /\ ~last.crash

\* the OS errors of a path that names no entry: a component is missing, or
\* the path goes on below an entry that is not a directory
NoEntryErrors == {"ENOENT", "ENOTDIR"}

\* C11: status(p, ec) and symlink_status(p, ec) return not_found with unknown
\* permissions exactly when p names no entry, and none exactly when the
\* query of the entry fails for another reason.
C11_NotFoundIffMissing ==
    StatusCall =>
        LET l == os_lstat(fs0, last.path)
        IN /\ (last.rett = "not_found") <=> (l.err \in NoEntryErrors)
           /\ (last.rett = "not_found") => (last.prms = PermsUnknown)
           /\ (last.rett = "none") <=> (l.err \notin NoEntryErrors \cup {""})

\* C12: status(p, ec) and symlink_status(p, ec) of a path that does not exist
\* return not_found and leave ec empty.
C12_NotFoundIsNoError ==
    (StatusCall /\ os_lstat(fs0, last.path).err = "ENOENT")
        => (last.rett = "not_found" /\ last.ec = NoError)

\* the entry of the call is a symbolic link
OnLink == LET l == os_lstat(fs0, last.path)
          IN l.err = "" /\ fs0[l.slot].kind = "link"

\* C13: status(p) of a symbolic link reports the type of the target when the
\* target exists and unknown when it does not (never symlink).
C13_StatusFollowsLink ==
    (last.op = "status" /\ ~last.crash /\ OnLink) =>
        LET t == os_stat(fs0, last.path)
        IN IF t.err = "" THEN last.rett = file_type(fs0[t.slot].kind)
           ELSE last.rett = "unknown"

\* C14: symlink_status(p) of a symbolic link reports type symlink, whatever
\* the target is and whether or not it exists.
C14_SymlinkStatusKeepsLink ==
    (last.op = "symlink_status" /\ ~last.crash /\ OnLink) => last.rett = "symlink"

\* ------------------------------------------------------------------------
\* Properties of mkdirs

\* the accumulated prefixes of a path: the strings that end with one of its
\* components
Prefixes(p) ==
    {SubSeq(p, 1, j) : j \in {i \in 1..Len(p) :
                                /\ p[i] \notin Separators
                                /\ (i = Len(p) \/ p[i + 1] \in Separators)}}

\* no prefix of p names an entry of f that is not a directory
NoConflict(f, p) ==
    \A q \in Prefixes(p) :
       LET l == os_lstat(f, q)
       IN l.err = "" => f[l.slot].kind = "dir"

\* C15: when no prefix of p is an existing entry that is not a directory,
\* mkdirs(p) called twice in succession returns true both times and the
\* second call leaves the tree as the first call left it.
C15_MkdirsIdempotent ==
    (last.op = "mkdirs_again" /\ ~last.crash /\ NoConflict(fs0, last.path))
        => (last.refretb /\ last.retb /\ fs = fs0)

\* the first of the two calls created two directories
C15_Witness ==
    /\ last.op = "mkdirs_again" /\ ~last.crash /\ NoConflict(fs0, last.path)
    /\ last.made = 2 /\ last.retb

\* C16: after mkdirs(p, ec) returned true every prefix of p exists and has
\* status type directory.
C16_MkdirsMakesEveryLevel ==
    (last.op = "mkdirs" /\ last.form = "ec" /\ ~last.crash /\ last.retb) =>
        \A q \in Prefixes(last.path) :
           exists(fs, q) /\ status(fs, q, NoError).type = "directory"

\* a mkdirs that returned true created two levels
C16_Witness ==
    /\ last.op = "mkdirs" /\ last.form = "ec" /\ ~last.crash /\ last.retb
    /\ Cardinality((DOMAIN fs) \ (DOMAIN fs0)) = 2

\* the prefix q of the path of the call exists and is not a directory
Conflict(q) ==
    LET t == os_stat(fs, q)
    IN t.err = "" /\ fs[t.slot].kind # "dir"

Identified(q) == os_stat(fs0, q).err = ""
\* the entry the path q resolves to
ObjectOf(q) == fs0[os_stat(fs0, q).slot]

EquivalentCall == last.op = "equivalent" /\ last.form = "ec" /\ ~last.crash

\* both paths are identified: true iff they resolve to the same object
SameObjectRule ==
    (Identified(last.path) /\ Identified(last.path2)) =>
        /\ last.retb <=> (ObjectOf(last.path).ino = ObjectOf(last.path2).ino)
        /\ last.ec = NoError

\* C18: equivalent(a, b, ec) returns false with ec set when exactly one of
\* the paths cannot be identified, false with ec empty when neither can,
\* and, when both are identified, true iff they denote the same object.
C18_EquivalentAsStated ==
    EquivalentCall =>
        /\ (Identified(last.path) # Identified(last.path2)) =>
              (~last.retb /\ last.ec # NoError)
        /\ (~Identified(last.path) /\ ~Identified(last.path2)) =>
              (~last.retb /\ last.ec = NoError)
        /\ SameObjectRule

\* C18, as the code has it: equivalent(a, b, ec) returns false with ec
\* empty when exactly one of the paths cannot be identified, false with ec
\* set to the error of the first path when neither can, and, when both are
\* identified, true iff they denote the same object; the filesystem is left
\* as it was.
C18_Equivalent ==
    EquivalentCall =>
        /\ (Identified(last.path) # Identified(last.path2)) =>
              (~last.retb /\ last.ec = NoError)
        /\ (~Identified(last.path) /\ ~Identified(last.path2)) =>
              (~last.retb /\ last.ec = os_stat(fs0, last.path).err)
        /\ SameObjectRule
        /\ fs = fs0

\* equivalent was called with a stale error code on an existing file and
\* a path that names nothing
C18_Witness ==
    /\ EquivalentCall /\ last.ecIn # NoError
    /\ Identified(last.path) /\ ~Identified(last.path2)
    /\ ~last.retb /\ last.ec = NoError

\* C19: for every path, the concatenation of root_name(), root_directory()
\* and relative_path() is the native string of the path.
C19_Reconstruction ==
    ({"root_name", "root_directory", "relative_path"} \subseteq parts.called) =>
        parts.root_name \o parts.root_directory \o parts.relative_path = parts.path

\* C20: for every path, root_path() is the string concatenation of
\* root_name() and root_directory(); a path that is only a root name has
\* root_path() equal to its root name.
C20_RootPathIsConcatenation ==
    ({"root_name", "root_directory", "root_path"} \subseteq parts.called) =>
        parts.root_path = parts.root_name \o parts.root_directory

\* ------------------------------------------------------------------------
\* Properties of path::iterator

RECURSIVE JoinComponents(_, _, _)
\* the components from the k-th on, joined with the preferred separator; no
\* separator after the root name rn nor next to a root directory component
JoinComponents(comps, k, rn) ==
    IF k > Len(comps) THEN <<>>
    ELSE (IF \/ k = 1
             \/ comps[k] = <<preferred_separator>>
             \/ comps[k - 1] = <<preferred_separator>>
             \/ (k = 2 /\ rn # <<>> /\ comps[1] = rn)
          THEN <<>>
          ELSE <<preferred_separator>>)
         \o comps[k] \o JoinComponents(comps, k + 1, rn)

\* two preferred separators in a row only at the start of a //host root name
NoRedundantSeparators(p) ==
    \A i \in 1..(Len(p) - 1) :
       (p[i] = preferred_separator /\ p[i + 1] = preferred_separator) =>
          (i = 1 /\ Len(root_name(p)) > 2)

\* a forward walk that has arrived at end()
WalkedToEnd == parts.walk = "fwd" /\ parts.it.pos = Len(parts.path)

\* C21: for a path without redundant interior separators, the components
\* read from begin() to end(), joined with the preferred separator (none
\* after the root name or around the root directory), give the native string.
C21_ComponentsRejoin ==
    (WalkedToEnd /\ NoRedundantSeparators(parts.path)) =>
        JoinComponents(parts.seen, 1, root_name(parts.path)) = parts.path

Reversed(q) == [i \in 1..Len(q) |-> q[Len(q) + 1 - i]]

\* C26: decrementing from end() down to begin() reads the components that
\* incrementing from begin() to end() reads, in reverse order, and a ++
\* followed by a -- is back at the position it started from.
C26_Bidirectional ==
    /\ parts.walk = "bwd" =>
          LET v == Reversed(Visited(begin(parts.path)))
          IN /\ Len(parts.seen) <= Len(v)
             /\ parts.seen = SubSeq(v, 1, Len(parts.seen))
             /\ parts.it.pos = 0 => parts.seen = v
    /\ parts.walk = "back" => parts.it.pos = parts.from

\* C28: the first component of a path that has a root name is its root name.
C28_FirstComponentIsRootName ==
    (parts.walk = "fwd" /\ parts.seen = <<>> /\ root_name(parts.path) # <<>>) =>
        parts.it.current = root_name(parts.path)

\* ------------------------------------------------------------------------
\* Properties of get_filename and append

\* the text of p after its last separator (all of p when it has none)
AfterLastSeparator(p) == SubstrFrom(p, FindLastBase(p, Len(p), {preferred_separator}))

\* C24: get_filename() of a path with a relative part is the text after
\* the last separator (empty when the path ends in a separator), and it is
\* empty when the path has no relative part.
C24_FilenameIsLastSegment ==
    ({"get_filename", "relative_path"} \subseteq parts.called) =>
        parts.get_filename = IF parts.relative_path = <<>> THEN <<>>
                             ELSE AfterLastSeparator(parts.path)

Appended == "append" \in parts.called

\* C22: when b is absolute and a's native string differs from a's root
\* name or b's root name differs from a's root name, a / b is b.
C22_AbsoluteReplacesAsStated ==
    (Appended /\ is_absolute(parts.other)
       /\ (parts.path # root_name(parts.path)
           \/ root_name(parts.other) # root_name(parts.path))) =>
        parts.joined = parts.other

\* C22, as the code has it: when b is absolute and a's native string
\* differs from a's root name, or b is not the single preferred separator,
\* or b has a root name that differs from a's root name, a / b is b.
C22_AbsoluteReplaces ==
    (Appended /\ is_absolute(parts.other)
       /\ (\/ parts.path # root_name(parts.path)
           \/ parts.other # <<preferred_separator>>
           \/ (root_name(parts.other) # <<>>
               /\ root_name(parts.other) # root_name(parts.path)))) =>
        parts.joined = parts.other

\* a path with a root name and more was replaced by an absolute path that
\* has no root name
C22_Witness ==
    /\ Appended /\ is_absolute(parts.other)
    /\ root_name(parts.path) # <<>> /\ parts.path # root_name(parts.path)
    /\ root_name(parts.other) = <<>>
    /\ parts.joined = parts.other

C25_ReadSymlink ==
    (last.op = "read_symlink" /\ last.form = "ec") =>
        /\ ~last.crash
        /\ IF OnLink
           THEN last.retp = fs0[os_lstat(fs0, last.path).slot].tgt /\ last.ec = NoError
           ELSE last.retp = <<>> /\ last.ec = "EINVAL"

\* the value an error-code form returns when it fails
Sentinel(op) == IF op = "last_write_time" THEN TimeMin ELSE Unknown

SentinelOps == {"remove_all", "file_size", "hard_link_count", "last_write_time"}

\* C27: the error-code forms remove_all, file_size, hard_link_count and
\* last_write_time return their sentinel if and only if ec is set on return.
C27_SentinelIffError ==
    (last.op \in SentinelOps /\ last.form = "ec" /\ ~last.crash) =>
        ((last.ret = Sentinel(last.op)) <=> (last.ec # NoError))

\* ------------------------------------------------------------------------
\* Properties of the entries and of the end state of a directory_iterator

\* C29: the path of the entry an iterator is on is the path of the
\* directory, one preferred separator unless that path ends in one, and
\* the OS name of the entry; it names an entry of the directory.
C29_EntryPathIsBasePlusName ==
    \A x \in Iterators :
       LET w == its[x]
       IN (w.st = "live" /\ w.it._current # <<>>) =>
             /\ w.it._current =
                   (IF w.p[Len(w.p)] = preferred_separator THEN w.p
                    ELSE w.p \o <<preferred_separator>>) \o w.it.name
             /\ LET e == os_lstat(fs, w.it._current)
                IN e.err = "" /\ e.slot \in Children(fs, os_stat(fs, w.p).slot)

\* C30: an iterator that is at the end stays at the end under every later
\* increment.
C30_EndIsAbsorbing ==
    [][\A x \in Iterators :
          (its[x].st = "live" /\ its[x].it._current = <<>> /\ its'[x].st = "live")
             => its'[x].it._current = <<>>]_vars

====
